---- MODULE Spec2Model ----
(***************************************************************************)
(* The client-side state synchronisation layer of the portal: the store    *)
(* and its reducers (groups, source, recentSources, newsFeed), the action  *)
(* creators, the WebSocket subscribers and the pages that await fetches.   *)
(*                                                                         *)
(* JavaScript objects live in a heap: a reference is a number, an object   *)
(* is a function from keys to values, an array is [arr |-> <<...>>].       *)
(* `x === y` on objects is equality of references, a spread copies the     *)
(* fields (nested references included) into a freshly allocated object.    *)
(***************************************************************************)
EXTENDS Integers, Sequences, FiniteSets, TLC

VARIABLES
    heap,       \* reference -> object (slice objects and the arrays the views write to)
    slice,      \* getState(): slice key -> reference of the slice object
    requests,   \* API calls in flight, in the order they were issued
    route,      \* route.id of the mounted Source page, or NoRoute
    effectDeps, \* dependencies the Source page's effect last ran with
    groupLoadError, \* Group page: useState groupLoadError
    last,       \* the plain action a component last handed to store.dispatch
    reducers,   \* store.reducers: the registration table, in registration order
    errors,     \* subscribers whose exception the message handler has caught
    reading,    \* addComment: forms whose attachment a FileReader is reading
    formState,  \* InviteNewGroupUserForm: useState formState
    invitations, \* InviteNewGroupUserForm: inviteUser calls awaited by handleClickSubmit
    state,      \* ClassificationForm: useReducer state
    candidates, \* getState().candidates: the slice CandidateList reads
    candidateList \* CandidateList: useState values, and its toolbar's `ascending`

\* what the components and the registries keep outside the slices
candidateVars == <<candidates, candidateList>>
localVars == <<reducers, errors, reading, formState, invitations, state,
              candidates, candidateList>>

vars == <<heap, slice, requests, route, effectDeps, groupLoadError, last,
          reducers, errors, reading, formState, invitations, state,
          candidates, candidateList>>

(***************************************************************************)
(* Action types                                                            *)
(***************************************************************************)
FETCH_NEWSFEED == "skyportal/FETCH_NEWSFEED"
FETCH_NEWSFEED_OK == "skyportal/FETCH_NEWSFEED_OK"
FETCH_GROUPS == "skyportal/FETCH_GROUPS"
FETCH_GROUPS_OK == "skyportal/FETCH_GROUPS_OK"
ADD_GROUP == "skyportal/ADD_GROUP"
ADD_GROUP_OK == "skyportal/ADD_GROUP_OK"
FETCH_RECENT_SOURCES == "skyportal/FETCH_RECENT_SOURCES"
FETCH_RECENT_SOURCES_OK == "skyportal/FETCH_RECENT_SOURCES_OK"
REFRESH_SOURCE == "skyportal/REFRESH_SOURCE"
FETCH_LOADED_SOURCE == "skyportal/FETCH_LOADED_SOURCE"
FETCH_LOADED_SOURCE_OK == "skyportal/FETCH_LOADED_SOURCE_OK"
FETCH_LOADED_SOURCE_FAIL == "skyportal/FETCH_LOADED_SOURCE_FAIL"
FETCH_GROUP == "skyportal/FETCH_GROUP"
FETCH_USER_PROFILE == "skyportal/FETCH_USER_PROFILE"
ROTATE_LOGO == "skyportal/ROTATE_LOGO"
ADD_SOURCE_VIEW == "skyportal/ADD_SOURCE_VIEW"
SHOW_NOTIFICATION == "baselayer/SHOW_NOTIFICATION"
UNKNOWN == "__UNKNOWN__"

(***************************************************************************)
(* JavaScript values                                                       *)
(***************************************************************************)
Undefined == "undefined"
Null == "null"
NullValue == [null |-> TRUE]
UndefinedValue == [undefined |-> TRUE]
Arr(s) == [arr |-> s]
IsArr(v) == "arr" \in DOMAIN v
EmptyObject == [k \in {} |-> TRUE]

\* obj[key], undefined when the key is absent
Get(obj, key) == IF key \in DOMAIN obj THEN obj[key] ELSE Undefined

\* {...a, ...b}: the keys of both, b's value where both have the key
Merge(a, b) ==
    [k \in (DOMAIN a) \cup (DOMAIN b) |-> IF k \in DOMAIN b THEN b[k] ELSE a[k]]

\* ...x inside an object literal: own enumerable keys. The only array ever
\* spread is the newsFeed reducer's default state [], which has none.
Spread(x) == IF IsArr(x) THEN EmptyObject ELSE x

(***************************************************************************)
(* Heap                                                                    *)
(***************************************************************************)
Alloc(h) ==
    CHOOSE r \in 1..(Cardinality(DOMAIN h) + 1) :
        /\ r \notin DOMAIN h
        /\ \A q \in 1..(Cardinality(DOMAIN h) + 1) : q \notin DOMAIN h => r <= q

\* a new object holding v
New(h, v) == [ref |-> Alloc(h), heap |-> (Alloc(h) :> v) @@ h]

\* what a reducer returns when it returns its argument
Same(h, s) == [ref |-> s, heap |-> h]

\* references an object holds
RefsOf(obj) == IF "thumbnails" \in DOMAIN obj THEN {obj.thumbnails} ELSE {}

\* the value of an object with the arrays it references written out
Deep(h, r) ==
    IF "thumbnails" \in DOMAIN h[r]
    THEN [h[r] EXCEPT !.thumbnails = h[h[r].thumbnails]]
    ELSE h[r]

(***************************************************************************)
(* Reducers: (heap, reference of the slice object, action) -> the heap     *)
(* after the call and the reference returned                               *)
(***************************************************************************)
newsFeedInitialState == Arr(<<>>)
groupsInitialState == [user |-> Arr(<<>>), userAccessible |-> Arr(<<>>), all |-> NullValue]
recentSourcesInitialState == [recentSources |-> UndefinedValue]
sourceInitialState == [source |-> Null, loadError |-> FALSE]

newsFeedReducer(h, s, action) ==
    IF action.type = FETCH_NEWSFEED_OK
    THEN New(h, Merge(Spread(h[s]), [newsFeedItems |-> action.data.news_feed_items]))
    ELSE Same(h, s)

\* groups reducer writing the fetched lists into the object it was handed
groupsReducerInPlace(h, s, action) ==
    IF action.type = FETCH_GROUPS_OK
    THEN [ref |-> s,
          heap |-> [h EXCEPT ![s] = Merge(h[s], [user |-> action.data.user_groups,
                                userAccessible |-> action.data.user_accessible_groups,
                                all |-> action.data.all_groups])]]
    ELSE Same(h, s)

\* groups reducer forgetting to replace `all`
groupsReducerKeepsAll(h, s, action) ==
    IF action.type = FETCH_GROUPS_OK
    THEN New(h, Merge(h[s], [user |-> action.data.user_groups,
                             userAccessible |-> action.data.user_accessible_groups]))
    ELSE Same(h, s)

\* groups reducer with a case for ADD_GROUP_OK that appends to `all`
groupsReducerAppends(h, s, action) ==
    CASE action.type = FETCH_GROUPS_OK ->
            New(h, Merge(h[s], [user |-> action.data.user_groups,
                                userAccessible |-> action.data.user_accessible_groups,
                                all |-> action.data.all_groups]))
      [] action.type = ADD_GROUP_OK ->
            New(h, Merge(h[s], [all |-> Arr((IF IsArr(h[s].all) THEN h[s].all.arr ELSE <<>>)
                                                \o <<action.data>>)]))
      [] OTHER -> Same(h, s)

\* groups reducer keeping the lists it already has (a stale-response guard gone wrong)
groupsReducerFirstWins(h, s, action) ==
    IF action.type = FETCH_GROUPS_OK /\ ~IsArr(h[s].all)
    THEN New(h, Merge(h[s], [user |-> action.data.user_groups,
                             userAccessible |-> action.data.user_accessible_groups,
                             all |-> action.data.all_groups]))
    ELSE Same(h, s)

groupsReducer(h, s, action) ==
    IF action.type = FETCH_GROUPS_OK
    THEN New(h, Merge(h[s], [user |-> action.data.user_groups,
                             userAccessible |-> action.data.user_accessible_groups,
                             all |-> action.data.all_groups]))
    ELSE Same(h, s)

\* recentSources reducer that also reacts to the source reducer's action
recentSourcesReducerTracksSource(h, s, action) ==
    CASE action.type = FETCH_RECENT_SOURCES_OK -> New(h, [recentSources |-> action.data])
      [] action.type = FETCH_LOADED_SOURCE_OK ->
            New(h, [recentSources |-> Arr(<<action.data.sources.id>>)])
      [] OTHER -> Same(h, s)

recentSourcesReducer(h, s, action) ==
    IF action.type = FETCH_RECENT_SOURCES_OK
    THEN New(h, [recentSources |-> action.data])
    ELSE Same(h, s)

\* source reducer whose default case returns a copy of the state
sourceReducerCopies(h, s, action) ==
    CASE action.type = FETCH_LOADED_SOURCE_OK ->
            New(h, Merge(Merge(h[s], action.data.sources), [loadError |-> FALSE]))
      [] action.type = FETCH_LOADED_SOURCE_FAIL ->
            New(h, Merge(h[s], [loadError |-> TRUE]))
      [] OTHER -> New(h, h[s])

\* source reducer whose FAIL case starts again from the initial state
sourceReducerFailResets(h, s, action) ==
    CASE action.type = FETCH_LOADED_SOURCE_OK ->
            New(h, Merge(Merge(h[s], action.data.sources), [loadError |-> FALSE]))
      [] action.type = FETCH_LOADED_SOURCE_FAIL ->
            New(h, Merge(sourceInitialState, [loadError |-> TRUE]))
      [] OTHER -> Same(h, s)

sourceReducer(h, s, action) ==
    CASE action.type = FETCH_LOADED_SOURCE_OK ->
            New(h, Merge(Merge(h[s], action.data.sources), [loadError |-> FALSE]))
      [] action.type = FETCH_LOADED_SOURCE_FAIL ->
            New(h, Merge(h[s], [loadError |-> TRUE]))
      [] OTHER -> Same(h, s)

(***************************************************************************)
(* Store: the registration table and dispatch                              *)
(***************************************************************************)
\* slice keys in the order their reducers were registered
SliceKeys == <<"newsFeed", "groups", "recentSources", "source">>
Keys == {SliceKeys[i] : i \in 1..Len(SliceKeys)}

InitialState(key) ==
    CASE key = "newsFeed" -> newsFeedInitialState
      [] key = "groups" -> groupsInitialState
      [] key = "recentSources" -> recentSourcesInitialState
      [] key = "source" -> sourceInitialState

Reduce(key, h, s, action) ==
    CASE key = "newsFeed" -> newsFeedReducer(h, s, action)
      [] key = "groups" -> groupsReducer(h, s, action)
      [] key = "recentSources" -> recentSourcesReducer(h, s, action)
      [] key = "source" -> sourceReducer(h, s, action)

\* the action types each reducer has a case for
Handles(key) ==
    CASE key = "newsFeed" -> {FETCH_NEWSFEED_OK}
      [] key = "groups" -> {FETCH_GROUPS_OK}
      [] key = "recentSources" -> {FETCH_RECENT_SOURCES_OK}
      [] key = "source" -> {FETCH_LOADED_SOURCE_OK, FETCH_LOADED_SOURCE_FAIL}

\* JSON.parse of a response: the arrays the views later write to become heap objects
ParseAction(h, a) ==
    IF a.type = FETCH_LOADED_SOURCE_OK
    THEN LET arr == New(h, a.data.sources.thumbnails)
         IN [heap |-> arr.heap,
             action |-> [a EXCEPT !.data.sources.thumbnails = arr.ref]]
    ELSE [heap |-> h, action |-> a]

\* a dispatch handing out the aggregate before the reducer registered last has run
RECURSIVE RunReducersPublishesEarly(_, _, _, _)
RunReducersPublishesEarly(i, h, sl, action) ==
    IF i >= Len(SliceKeys) THEN [heap |-> h, slice |-> sl]
    ELSE LET key == SliceKeys[i]
             r == Reduce(key, h, sl[key], action)
         IN RunReducersPublishesEarly(i + 1, r.heap, [sl EXCEPT ![key] = r.ref], action)

\* the reducers run one after the other in registration order, each on its own slice
RECURSIVE RunReducers(_, _, _, _)
RunReducers(i, h, sl, action) ==
    IF i > Len(SliceKeys) THEN [heap |-> h, slice |-> sl]
    ELSE LET key == SliceKeys[i]
             r == Reduce(key, h, sl[key], action)
         IN RunReducers(i + 1, r.heap, [sl EXCEPT ![key] = r.ref], action)

\* store.dispatch(action) for a plain action
StoreDispatch(h, sl, a) ==
    LET p == ParseAction(h, a)
    IN RunReducers(1, p.heap, sl, p.action)

\* a handler dispatching the plain actions of as one after the other
RECURSIVE DispatchAll(_, _, _)
DispatchAll(h, sl, as) ==
    IF as = <<>> THEN [heap |-> h, slice |-> sl]
    ELSE LET r == StoreDispatch(h, sl, Head(as))
         IN DispatchAll(r.heap, r.slice, Tail(as))

\* a registration that adds an entry whether or not the key has one
injectReducerAppends(table, key, reducer) ==
    Append(table, [key |-> key, reducer |-> reducer])

\* store.injectReducer(key, reducer): the entry of key is set, a new key goes last
injectReducer(table, key, reducer) ==
    IF \E i \in 1..Len(table) : table[i].key = key
    THEN [i \in 1..Len(table) |->
            IF table[i].key = key THEN [key |-> key, reducer |-> reducer] ELSE table[i]]
    ELSE Append(table, [key |-> key, reducer |-> reducer])

\* the table once the first n ducks are loaded; a reducer is named by the
\* slice key its module registers it under
RECURSIVE RegisterDucks(_)
RegisterDucks(n) ==
    IF n = 0 THEN <<>>
    ELSE injectReducer(RegisterDucks(n - 1), SliceKeys[n], SliceKeys[n])

Registry == RegisterDucks(Len(SliceKeys))

\* the reducers of a table run one after the other, each on the slice of its key
RECURSIVE RunRegistered(_, _, _, _, _)
RunRegistered(i, table, h, sl, action) ==
    IF i > Len(table) THEN [heap |-> h, slice |-> sl]
    ELSE LET key == table[i].key
             r == Reduce(table[i].reducer, h, sl[key], action)
         IN RunRegistered(i + 1, table, r.heap, [sl EXCEPT ![key] = r.ref], action)

\* store.dispatch(action) with the reducers registered in table
RegisteredDispatch(table, h, sl, a) ==
    LET p == ParseAction(h, a)
    IN RunRegistered(1, table, p.heap, sl, p.action)

(***************************************************************************)
(* Bounds and the values responses are drawn from                          *)
(***************************************************************************)
MaxInFlight == 2

SourceIds == {"42", "43"}
NoRoute == "none"

Group1 == [id |-> 1, name |-> "Group 1"]
Group7 == [id |-> 7, name |-> "Test Group"]

GroupsBodies ==
    { [user_groups |-> Arr(<<>>), user_accessible_groups |-> Arr(<<>>), all_groups |-> NullValue],
      [user_groups |-> Arr(<<>>), user_accessible_groups |-> Arr(<<>>), all_groups |-> Arr(<<>>)],
      [user_groups |-> Arr(<<Group1>>), user_accessible_groups |-> Arr(<<Group1, Group7>>),
       all_groups |-> Arr(<<Group7>>)] }

RecentSourcesBodies == {Arr(<<>>), Arr(<<"42">>)}

NewsFeedBodies == {[news_feed_items |-> Arr(<<"n1">>)], [news_feed_items |-> Arr(<<"n2", "n1">>)]}

\* a thumbnail is written as its `type`, the one field ThumbnailList's sort reads
SourceBodies(id) ==
    { [sources |-> [id |-> id, thumbnails |-> Arr(<<"ref", "new">>)]],
      [sources |-> [id |-> id, thumbnails |-> Arr(<<"ref", "new">>), redshift |-> "0.1"]] }

FailureMessages == {"network error", "server error"}

(***************************************************************************)
(* HTTP client wrapper                                                     *)
(***************************************************************************)
\* API.GET/POST/PUT/DELETE(endpoint, actionType, body): the call a thunk makes
APICall(type, arg) == [type |-> type, arg |-> arg]

\* what the server may answer to a call
Outcomes(req) ==
    LET ok(bodies) == {[kind |-> "success", data |-> d] : d \in bodies}
        failed == {[kind |-> "failure", message |-> m] : m \in FailureMessages}
    IN CASE req.type = FETCH_GROUPS -> ok(GroupsBodies) \cup failed
         [] req.type = FETCH_RECENT_SOURCES -> ok(RecentSourcesBodies) \cup failed
         [] req.type = FETCH_NEWSFEED -> ok(NewsFeedBodies) \cup failed
         [] req.type = FETCH_LOADED_SOURCE ->
                IF req.arg \in SourceIds THEN ok(SourceBodies(req.arg)) \cup failed ELSE failed
         [] req.type = ADD_GROUP -> ok({Group7}) \cup failed
         [] OTHER -> ok({[id |-> req.arg]}) \cup failed

\* the answers the pages are checked with: one body for each source
PageOutcomes(req) ==
    {o \in Outcomes(req) :
        (o.kind = "success" /\ req.type = FETCH_LOADED_SOURCE)
            => "redshift" \notin DOMAIN o.data.sources}

\* the plain actions the wrapper dispatches when the answer is in
\* a wrapper that announces a failure after having announced the success
APIActionsBoth(req, outcome) ==
    IF outcome.kind = "success"
    THEN << [type |-> req.type \o "_OK", data |-> outcome.data],
            [type |-> req.type \o "_FAIL"] >>
    ELSE << [type |-> req.type \o "_FAIL"],
            [type |-> SHOW_NOTIFICATION, message |-> outcome.message] >>

APIActions(req, outcome) ==
    IF outcome.kind = "success"
    THEN << [type |-> req.type \o "_OK", data |-> outcome.data] >>
    ELSE << [type |-> req.type \o "_FAIL"],
            [type |-> SHOW_NOTIFICATION, message |-> outcome.message] >>

\* what the promise returned by dispatch(API.X(...)) settles with
APIResult(req, outcome) ==
    IF outcome.kind = "success"
    THEN [settled |-> "resolved", status |-> "success", data |-> outcome.data]
    ELSE [settled |-> "resolved", status |-> "error", message |-> outcome.message]

(***************************************************************************)
(* Action creators                                                         *)
(***************************************************************************)
fetchNewsFeed == APICall(FETCH_NEWSFEED, Undefined)
fetchGroups == APICall(FETCH_GROUPS, Undefined)
addNewGroup == APICall(ADD_GROUP, Undefined)
fetchRecentSources == APICall(FETCH_RECENT_SOURCES, Undefined)
fetchSource(id) == APICall(FETCH_LOADED_SOURCE, id)
fetchGroup(id) == APICall(FETCH_GROUP, id)
fetchUserProfile == APICall(FETCH_USER_PROFILE, Undefined)
addSourceView(id) == APICall(ADD_SOURCE_VIEW, id)
rotateLogo == [type |-> ROTATE_LOGO]
hydrate == <<fetchUserProfile, fetchGroups>>

\* the creators of the ducks hydrate (default export) calls besides these
fetchConfig == APICall("skyportal/FETCH_CONFIG", Undefined)
fetchSystemInfo == APICall("skyportal/FETCH_SYSINFO", Undefined)
fetchDBInfo == APICall("skyportal/FETCH_DB_INFO", Undefined)
fetchTopSources == APICall("skyportal/FETCH_TOP_SOURCES", Undefined)
fetchInstruments == APICall("skyportal/FETCH_INSTRUMENTS", Undefined)
fetchInstrumentObsParams == APICall("skyportal/FETCH_INSTRUMENT_OBS_PARAMS", Undefined)
fetchObservingRuns == APICall("skyportal/FETCH_OBSERVING_RUNS", Undefined)
fetchTelescopes == APICall("skyportal/FETCH_TELESCOPES", Undefined)
fetchTaxonomies == APICall("skyportal/FETCH_TAXONOMIES", Undefined)

\* hydrate (default export): the calls its thunk dispatches, in program order
hydrateDefault ==
    << fetchConfig, fetchSystemInfo, fetchDBInfo, fetchUserProfile, fetchGroups,
       fetchNewsFeed, fetchTopSources, fetchInstruments, fetchInstrumentObsParams,
       fetchObservingRuns, fetchTelescopes, fetchTaxonomies >>

(***************************************************************************)
(* WebSocket subscribers: the calls each dispatches for one message        *)
(***************************************************************************)
PayloadSourceId(payload) == Get(payload, "source_id")

\* source subscriber refetching on every REFRESH_SOURCE, whatever source it names
sourceSubscriberUngated(actionType, payload, h, sl) ==
    LET source == h[sl["source"]]
        loaded_source_id == Get(source, "id")
    IN IF actionType = REFRESH_SOURCE
       THEN <<fetchSource(loaded_source_id)>>
       ELSE <<>>

\* payload.source_id of a message that came without payload is a TypeError
sourceSubscriberThrows(actionType, payload) ==
    actionType = REFRESH_SOURCE /\ payload \in {NullValue, UndefinedValue}

sourceSubscriber(actionType, payload, h, sl) ==
    LET source == h[sl["source"]]
        loaded_source_id == Get(source, "id")
    IN IF /\ actionType = REFRESH_SOURCE
          /\ ~sourceSubscriberThrows(actionType, payload)
          /\ loaded_source_id = PayloadSourceId(payload)
       THEN <<fetchSource(loaded_source_id)>>
       ELSE <<>>

\* groups subscriber refetching on every message, whatever its actionType
groupsSubscriberAnyType(actionType, payload, h, sl) == <<fetchGroups>>

groupsSubscriber(actionType, payload, h, sl) ==
    IF actionType = FETCH_GROUPS THEN <<fetchGroups>> ELSE <<>>

recentSourcesSubscriber(actionType, payload, h, sl) ==
    IF actionType = FETCH_RECENT_SOURCES THEN <<fetchRecentSources>> ELSE <<>>

\* messageHandler: every subscriber, in registration order
Subscribers(actionType, payload, h, sl) ==
    sourceSubscriber(actionType, payload, h, sl)
        \o groupsSubscriber(actionType, payload, h, sl)
        \o recentSourcesSubscriber(actionType, payload, h, sl)

MessageTypes == {REFRESH_SOURCE, FETCH_GROUPS, FETCH_RECENT_SOURCES, "skyportal/FETCH_USER_PROFILE"}
Payloads == {[source_id |-> id] : id \in SourceIds} \cup {[group_id |-> "1"]}
\* a message may come without payload
MessagePayloads == Payloads \cup {UndefinedValue}

\* the subscribers by the duck that adds them, in registration order
SubscriberNames == <<"source", "groups", "recentSources">>

Subscriber(name, actionType, payload, h, sl) ==
    CASE name = "source" -> sourceSubscriber(actionType, payload, h, sl)
      [] name = "groups" -> groupsSubscriber(actionType, payload, h, sl)
      [] name = "recentSources" -> recentSourcesSubscriber(actionType, payload, h, sl)

SubscriberThrows(name, actionType, payload) ==
    name = "source" /\ sourceSubscriberThrows(actionType, payload)

\* a message handler that lets the exception of a subscriber end the delivery
RECURSIVE DeliverUnguarded(_, _, _, _, _)
DeliverUnguarded(i, actionType, payload, h, sl) ==
    IF i > Len(SubscriberNames) THEN [invoked |-> <<>>, calls |-> <<>>, thrown |-> {}]
    ELSE LET name == SubscriberNames[i]
         IN IF SubscriberThrows(name, actionType, payload)
            THEN [invoked |-> <<name>>, calls |-> <<>>, thrown |-> {name}]
            ELSE LET rest == DeliverUnguarded(i + 1, actionType, payload, h, sl)
                 IN [invoked |-> <<name>> \o rest.invoked,
                     calls |-> Subscriber(name, actionType, payload, h, sl) \o rest.calls,
                     thrown |-> rest.thrown]

\* messageHandler delivering one message to the subscribers from the i-th on:
\* who was invoked, the calls they dispatched, who threw
RECURSIVE Deliver(_, _, _, _, _)
Deliver(i, actionType, payload, h, sl) ==
    IF i > Len(SubscriberNames) THEN [invoked |-> <<>>, calls |-> <<>>, thrown |-> {}]
    ELSE LET name == SubscriberNames[i]
             rest == Deliver(i + 1, actionType, payload, h, sl)
         IN [invoked |-> <<name>> \o rest.invoked,
             calls |-> Subscriber(name, actionType, payload, h, sl) \o rest.calls,
             thrown |-> IF SubscriberThrows(name, actionType, payload)
                        THEN {name} \cup rest.thrown
                        ELSE rest.thrown]

(***************************************************************************)
(* Requests in flight                                                      *)
(***************************************************************************)
\* dispatch(thunk) for each call of calls: the request leaves, nothing is awaited here
RECURSIVE Issue(_, _, _)
Issue(reqs, calls, origin) ==
    IF calls = <<>> THEN reqs
    ELSE Issue(Append(reqs, [type |-> Head(calls).type, arg |-> Head(calls).arg,
                             origin |-> origin, race |-> "none"]),
               Tail(calls), origin)

Remove(reqs, i) == SubSeq(reqs, 1, i - 1) \o SubSeq(reqs, i + 1, Len(reqs))

\* requests still in flight when the success of request i is reduced remember
\* whether the response that overtook them belonged to an older or a newer call
MarkRace(reqs, i, outcome) ==
    [j \in 1..Len(reqs) |->
        IF j # i /\ outcome.kind = "success" /\ reqs[j].type = reqs[i].type
        THEN [reqs[j] EXCEPT !.race = IF i < j THEN "afterOlder" ELSE "afterNewer"]
        ELSE reqs[j]]

(***************************************************************************)
(* The heap between two handlers: what getState() reaches, references      *)
(* numbered in the order of the slice keys (a reference has no meaning     *)
(* beyond its identity)                                                    *)
(***************************************************************************)
ArrayRef == Len(SliceKeys) + 1
KeyIndex(key) == CHOOSE i \in 1..Len(SliceKeys) : SliceKeys[i] = key

SettledObject(h, r) ==
    IF RefsOf(h[r]) = {} THEN h[r] ELSE [h[r] EXCEPT !.thumbnails = ArrayRef]

SettledHeap(h, sl) ==
    LET objects == [i \in 1..Len(SliceKeys) |-> SettledObject(h, sl[SliceKeys[i]])]
        arrays == UNION {RefsOf(h[sl[k]]) : k \in Keys}
    IN IF arrays = {} THEN objects
       ELSE (ArrayRef :> h[CHOOSE a \in arrays : TRUE]) @@ objects

SettledSlice == [k \in Keys |-> KeyIndex(k)]

NoAction == [type |-> "none"]

(***************************************************************************)
(* Pages                                                                   *)
(***************************************************************************)
NoPage == [page |-> "none", id |-> NoRoute]
NoDeps == [mounted |-> FALSE]

cachedSourceId == Get(heap[slice["source"]], "id")
isCached == route.id = cachedSourceId
\* a Source page whose effect also depends on source.loadError
SourceDepsWithLoadError ==
    [mounted |-> TRUE, isCached |-> isCached, id |-> route.id,
     loadError |-> heap[slice["source"]].loadError]

\* a Source page whose effect depends on the route id alone
SourceDepsRouteOnly == [mounted |-> TRUE, isCached |-> FALSE, id |-> route.id]

SourceDeps == [mounted |-> TRUE, isCached |-> isCached, id |-> route.id]
\* the group slice is not part of this store: state.group.id reads undefined
GroupDeps == [mounted |-> TRUE, id |-> route.id, loadedId |-> Undefined]

thumbnail_order == <<"new", "ref", "sub", "sdss", "ps1">>
indexOf(seq, x) ==
    IF \E i \in 1..Len(seq) : seq[i] = x
    THEN CHOOSE i \in 1..Len(seq) : seq[i] = x /\ \A j \in 1..(i - 1) : seq[j] # x
    ELSE 0

RECURSIVE InsertByOrder(_, _)
InsertByOrder(sorted, x) ==
    IF sorted = <<>> THEN <<x>>
    ELSE IF indexOf(thumbnail_order, Head(sorted)) > indexOf(thumbnail_order, x)
         THEN <<x>> \o sorted
         ELSE <<Head(sorted)>> \o InsertByOrder(Tail(sorted), x)

RECURSIVE SortByOrder(_)
SortByOrder(seq) ==
    IF seq = <<>> THEN <<>>
    ELSE InsertByOrder(SortByOrder(SubSeq(seq, 1, Len(seq) - 1)), seq[Len(seq)])

\* thumbnails.sort((a, b) => indexOf(a.type) > indexOf(b.type)): the comparator
\* answers true/false, never a negative number, so the order the engine produces
\* is implementation-defined: engines that test `> 0` sort, engines that test
\* `< 0` leave the array as it is. Either way the array is written in place.
ThumbnailSortResults(seq) == {seq, SortByOrder(seq)}

(***************************************************************************)
(* addComment: the comment form, its attachment and the FileReader         *)
(***************************************************************************)
ADD_COMMENT == "skyportal/ADD_COMMENT"

\* File objects the user may attach
Files == {[name |-> "plot.png", content |-> "PNG"], [name |-> "notes.txt", content |-> "hi"]}

CommentForms ==
    {[source_id |-> "42", text |-> "nice"]}
        \cup {[source_id |-> "42", text |-> "nice", attachment |-> f] : f \in Files}

\* if (form.attachment)
hasAttachment(form) == "attachment" \in DOMAIN form

\* filereader.result after a read that went through: the file as a data URL
Base64(content) ==
    CASE content = "PNG" -> "UE5H"
      [] content = "hi" -> "aGk="
readAsDataURL(file) == "data:;base64," \o Base64(file.content)

\* filereader.result when onloadend fires: the data URL, or null when the
\* read ended with an error
ReadResults(file) == {readAsDataURL(file), Null}

\* what fileReaderPromise(file) resolves with
fileReaderPromise(file, result) == [body |-> result, name |-> file.name]

\* the promise dispatch(API.X(...)) returns for a call
Promise(call) == [promise |-> call]
IsPromise(v) == "promise" \in DOMAIN v

\* an addComment whose thunk returns the promise chain it starts
addCommentReturnsPromise(form) == Promise(APICall(ADD_COMMENT, form))

\* what dispatch(addComment(form)) returns to its caller: the thunk has no
\* return statement, the wrapper's call returns its promise
addCommentReturn(form) ==
    IF hasAttachment(form) THEN UndefinedValue
    ELSE Promise(APICall(ADD_COMMENT, form))

\* what dispatch(hydrate()) returns to its caller: neither thunk returns anything
hydrateReturn(thunk) == UndefinedValue

(***************************************************************************)
(* Forms: what the components keep in their own state                      *)
(***************************************************************************)
\* InviteNewGroupUserForm
Emails == {"", "a@b.c"}
defaultState == [newUserEmail |-> "", role |-> "Full user", admin |-> FALSE, canSave |-> TRUE]

\* ClassificationForm: the taxonomies it is given, the latest ones
latestTaxonomyList ==
    << [id |-> 1, allowed_classes |-> <<[class |-> "AGN"]>>],
       [id |-> 2, allowed_classes |-> <<[class |-> "SN"]>>] >>

\* numbers are counted in hundredths: 1.0 is 100
Scale == 100
Number(n) == [number |-> n]
String(chars) == [string |-> chars]

initialState ==
    [taxonomy_index |-> 0,
     classification |-> NullValue,
     probability |-> Number(Scale),
     class_select_enabled |-> FALSE,
     probability_select_enabled |-> FALSE,
     probability_errored |-> FALSE,
     allowed_classes |-> latestTaxonomyList[1].allowed_classes]

(***************************************************************************)
(* Candidate list and its sort toolbar                                     *)
(***************************************************************************)
FETCH_CANDIDATES == "skyportal/FETCH_CANDIDATES"
defaultNumPerPage == 25
\* the rows-per-page choices and the pages (0-indexed) the table offers
RowsPerPageOptions == {25, 50}
Pages == {0, 1}
\* the annotation items a user may select to sort on
AnnotationItems ==
    {[origin |-> "kowalski", key |-> "rb"], [origin |-> "kowalski", key |-> "drb"]}
Boolean(b) == [boolean |-> b]

\* state.candidates before any answer
candidatesInitialState ==
    [candidates |-> NullValue, pageNumber |-> 1, selectedAnnotationItem |-> NullValue]

\* the candidates reducer merges the answer into the slice
candidatesReducer(st, action) ==
    IF action.type = FETCH_CANDIDATES \o "_OK" THEN Merge(st, action.data) ELSE st

fetchCandidates(data) == APICall(FETCH_CANDIDATES, data)

\* the page the server answers a query with
CandidatesBody(data) ==
    [candidates |-> [query |-> data],
     pageNumber |-> IF "pageNumber" \in DOMAIN data THEN data.pageNumber ELSE 1]

CandidatesOutcomes(req) ==
    {[kind |-> "success", data |-> CandidatesBody(req.arg)]}
        \cup {[kind |-> "failure", message |-> m] : m \in FailureMessages}

\* CandidateList's useState values, with the `ascending` of its CustomSortToolbar
candidateListInitialState ==
    [mounted |-> FALSE,
     queryInProgress |-> FALSE,
     rowsPerPage |-> defaultNumPerPage,
     ascending |-> NullValue]

(***************************************************************************)
(* Initial state: every module loaded, every reducer registered            *)
(***************************************************************************)
Init ==
    /\ heap = [r \in 1..Len(SliceKeys) |-> InitialState(SliceKeys[r])]
    /\ slice = SettledSlice
    /\ requests = <<>>
    /\ route = NoPage
    /\ effectDeps = NoDeps
    /\ groupLoadError = ""
    /\ last = NoAction
    /\ reducers = Registry
    /\ errors = {}
    /\ reading = <<>>
    /\ formState = defaultState
    /\ invitations = <<>>
    /\ state = initialState
    /\ candidates = candidatesInitialState
    /\ candidateList = candidateListInitialState

(***************************************************************************)
(* Steps                                                                   *)
(***************************************************************************)
\* store.dispatch of one plain action by a component
Dispatch(a) ==
    LET d == StoreDispatch(heap, slice, a)
    IN /\ heap' = SettledHeap(d.heap, d.slice)
       /\ slice' = SettledSlice
       /\ last' = a
       /\ UNCHANGED <<requests, route, effectDeps, groupLoadError, localVars>>

\* the user opens /source/:id or /group/:id
Navigate(page, id) ==
    /\ route # [page |-> page, id |-> id]
    /\ route' = [page |-> page, id |-> id]
    /\ effectDeps' = IF route.page = page THEN effectDeps ELSE NoDeps
    /\ groupLoadError' = IF route.page = page THEN groupLoadError ELSE ""
    /\ UNCHANGED <<heap, slice, requests, last, localVars>>

\* Source: useEffect(..., [dispatch, isCached, route.id])
SourceEffect ==
    /\ route.page = "Source"
    /\ effectDeps # SourceDeps
    /\ LET calls == IF isCached THEN <<>> ELSE <<fetchSource(route.id)>>
       IN /\ Len(requests) + Len(calls) <= MaxInFlight
          /\ requests' = Issue(requests, calls, "Source")
    /\ effectDeps' = SourceDeps
    /\ UNCHANGED <<heap, slice, route, groupLoadError, last, localVars>>

\* Source renders its ThumbnailList with source.thumbnails
SourceRender ==
    /\ route.page = "Source"
    /\ ~heap[slice["source"]].loadError
    /\ isCached
    /\ LET t == heap[slice["source"]].thumbnails
       IN \E sorted \in ThumbnailSortResults(heap[t].arr) :
            /\ sorted # heap[t].arr
            /\ heap' = [heap EXCEPT ![t] = Arr(sorted)]
    /\ UNCHANGED <<slice, requests, route, effectDeps, groupLoadError, last, localVars>>

\* Group: useEffect(..., [id, loadedId, dispatch])
GroupEffect ==
    /\ route.page = "Group"
    /\ effectDeps # GroupDeps
    /\ Len(requests) < MaxInFlight
    /\ requests' = Issue(requests, <<fetchGroup(route.id)>>, "Group")
    /\ effectDeps' = GroupDeps
    /\ UNCHANGED <<heap, slice, route, groupLoadError, last, localVars>>

\* a handler dispatching the calls of action creators without awaiting them
Call(calls, origin) ==
    /\ Len(requests) + Len(calls) <= MaxInFlight
    /\ requests' = Issue(requests, calls, origin)
    /\ UNCHANGED <<heap, slice, route, effectDeps, groupLoadError, last, localVars>>

\* some handler dispatches the call of an action creator (a subscriber, hydrate, a form)
Fetch(call) == Call(<<call>>, "other")
Hydrate == Call(hydrate, "other")

\* a hydrate that awaits its first fetch before it dispatches the next
LoadAwaiting(thunk) ==
    /\ heap' = [r \in 1..Len(SliceKeys) |-> InitialState(SliceKeys[r])]
    /\ slice' = SettledSlice
    /\ requests' = Issue(<<>>, <<Head(thunk)>>, "other")
    /\ route' = NoPage
    /\ effectDeps' = NoDeps
    /\ groupLoadError' = ""
    /\ last' = NoAction
    /\ UNCHANGED localVars

\* the application is loaded: the store is built and dispatch(hydrate()) runs
\* the thunk to its end, one dispatch after the other and no await between
Load(thunk) ==
    /\ heap' = [r \in 1..Len(SliceKeys) |-> InitialState(SliceKeys[r])]
    /\ slice' = SettledSlice
    /\ requests' = Issue(<<>>, thunk, "other")
    /\ route' = NoPage
    /\ effectDeps' = NoDeps
    /\ groupLoadError' = ""
    /\ last' = NoAction
    /\ UNCHANGED localVars

\* one inbound WebSocket message, handed to every subscriber
WSMessage(actionType, payload) ==
    LET d == Deliver(1, actionType, payload, heap, slice)
    IN /\ d.calls # <<>> \/ ~(d.thrown \subseteq errors)
       /\ Len(requests) + Len(d.calls) <= MaxInFlight
       /\ requests' = Issue(requests, d.calls, "ws")
       /\ errors' = errors \cup d.thrown
       /\ UNCHANGED <<candidateVars, heap, slice, route, effectDeps, groupLoadError, last,
                      reducers, reading, formState, invitations, state>>

\* the code of the caller after `await dispatch(...)`: the calls it dispatches
\* and the groupLoadError it sets
ContinuationCalls(req, result) ==
    IF req.origin = "Source" /\ result.settled = "resolved" /\ result.status = "success"
    THEN <<addSourceView(req.arg)>>
    ELSE <<>>

\* a Group page testing the result for a status the wrapper never gives
ContinuationErrorWrongStatus(req, result) ==
    IF /\ req.origin = "Group" /\ route.page = "Group"
       /\ result.settled = "resolved" /\ result.status = "fail"
    THEN result.message
    ELSE groupLoadError

ContinuationError(req, result) ==
    IF /\ req.origin = "Group" /\ route.page = "Group"
       /\ result.settled = "resolved" /\ result.status = "error"
    THEN result.message
    ELSE groupLoadError

\* the answer to request i arrives: the wrapper dispatches, the promise settles,
\* the awaiting caller goes on
Respond(i, outcome) ==
    LET req == requests[i]
        actions == APIActions(req, outcome)
        result == APIResult(req, outcome)
        d == DispatchAll(heap, slice, actions)
        calls == ContinuationCalls(req, result)
    IN /\ requests' = Issue(Remove(MarkRace(requests, i, outcome), i), calls, "other")
       /\ groupLoadError' = ContinuationError(req, result)
       /\ heap' = SettledHeap(d.heap, d.slice)
       /\ slice' = SettledSlice
       /\ UNCHANGED <<route, effectDeps, last, localVars>>

\* a module (again) registers reducer under key; the state the store holds stays
Inject(key, reducer) ==
    /\ reducers' = injectReducer(reducers, key, reducer)
    /\ UNCHANGED <<candidateVars, heap, slice, requests, route, effectDeps, groupLoadError, last,
                   errors, reading, formState, invitations, state>>

\* store.dispatch of one plain action, run through the reducers now registered
DispatchRegistered(a) ==
    LET d == RegisteredDispatch(reducers, heap, slice, a)
    IN /\ heap' = SettledHeap(d.heap, d.slice)
       /\ slice' = SettledSlice
       /\ last' = a
       /\ UNCHANGED <<requests, route, effectDeps, groupLoadError, localVars>>

\* dispatch(addComment(form)): with an attachment the thunk starts the
\* FileReader and ends; without one the POST leaves at once
AddComment(form) ==
    /\ IF hasAttachment(form)
       THEN /\ Len(reading) < MaxInFlight
            /\ reading' = Append(reading, form)
            /\ UNCHANGED requests
       ELSE /\ Len(requests) < MaxInFlight
            /\ requests' = Issue(requests, <<APICall(ADD_COMMENT, form)>>, "other")
            /\ UNCHANGED reading
    /\ UNCHANGED <<candidateVars, heap, slice, route, effectDeps, groupLoadError, last,
                   reducers, errors, formState, invitations, state>>

\* filereader.onloadend for the i-th read: the promise resolves, the then
\* callback writes form.attachment and dispatches the POST
LoadEnd(i, result) ==
    LET form == reading[i]
        fileData == fileReaderPromise(form.attachment, result)
        posted == [form EXCEPT !.attachment = fileData]
    IN /\ Len(requests) < MaxInFlight
       /\ requests' = Issue(requests, <<APICall(ADD_COMMENT, posted)>>, "other")
       /\ reading' = Remove(reading, i)
       /\ UNCHANGED <<candidateVars, heap, slice, route, effectDeps, groupLoadError, last,
                      reducers, errors, formState, invitations, state>>

\* InviteNewGroupUserForm -------------------------------------------------
Roles == {"Full user", "View only"}
group_id == "1"

\* handleClickSubmit sending the checkbox state whatever the role
inviteAdminFromCheckbox(fs) == fs.admin

\* handleClickSubmit: admin is false unless the role is "Full user"
inviteAdmin(fs) == IF fs.role = "Full user" THEN fs.admin ELSE FALSE

\* the argument of invitationsActions.inviteUser
inviteUser(fs) ==
    [userEmail |-> fs.newUserEmail,
     groupIDs |-> <<group_id>>,
     groupAdmin |-> <<inviteAdmin(fs)>>,
     role |-> fs.role,
     streamIDs |-> Null,
     canSave |-> <<fs.canSave>>]

\* the checkboxes that are rendered
Rendered(name) ==
    CASE name = "canSave" -> formState.role = "Full user"
      [] name = "admin" -> formState.role = "Full user" /\ formState.canSave

handleRoleChange(value) ==
    /\ formState' = [formState EXCEPT !.role = value]
    /\ UNCHANGED <<candidateVars, heap, slice, requests, route, effectDeps, groupLoadError, last,
                   reducers, errors, reading, invitations, state>>

\* onChange of the checkbox `name`: event.target.checked is the box's new state
toggleCheckbox(name) ==
    /\ Rendered(name)
    /\ formState' = [formState EXCEPT ![name] = ~formState[name]]
    /\ UNCHANGED <<candidateVars, heap, slice, requests, route, effectDeps, groupLoadError, last,
                   reducers, errors, reading, invitations, state>>

\* onChange of the email field
setNewUserEmail(value) ==
    /\ formState' = [formState EXCEPT !.newUserEmail = value]
    /\ UNCHANGED <<candidateVars, heap, slice, requests, route, effectDeps, groupLoadError, last,
                   reducers, errors, reading, invitations, state>>

\* handleClickSubmit up to its await: the invitation leaves; the handler keeps
\* the formState of the render it was created in
handleClickSubmit ==
    /\ Len(invitations) < MaxInFlight
    /\ invitations' = Append(invitations, [formState |-> formState,
                                           form |-> inviteUser(formState)])
    /\ UNCHANGED <<candidateVars, heap, slice, requests, route, effectDeps, groupLoadError, last,
                   reducers, errors, reading, formState, state>>

\* handleClickSubmit after its await: on success the form is reset, the role kept
handleClickSubmitResumes(i, status) ==
    /\ formState' = IF status = "success"
                    THEN [defaultState EXCEPT !.role = invitations[i].formState.role]
                    ELSE formState
    /\ invitations' = Remove(invitations, i)
    /\ UNCHANGED <<candidateVars, heap, slice, requests, route, effectDeps, groupLoadError, last,
                   reducers, errors, reading, state>>

\* ClassificationForm -----------------------------------------------------
ADD_CLASSIFICATION == "skyportal/ADD_CLASSIFICATION"
obj_id == "42"

\* event.target.value of the probability field (type="number"): the empty
\* string when the entry is no number, else a decimal numeral
Entries ==
    { <<>>, <<"-", "1">>, <<"-", "0", ".", "5">>, <<"0">>, <<"0", ".", "5">>,
      <<"1">>, <<"1", ".", "0", "1">>, <<"7">> }

DigitChars == <<"0", "1", "2", "3", "4", "5", "6", "7", "8", "9">>
IsDigit(c) == \E d \in 1..10 : DigitChars[d] = c
DigitValue(c) == (CHOOSE d \in 1..10 : DigitChars[d] = c) - 1

\* the first position from i on that holds no digit
RECURSIVE DigitsEnd(_, _)
DigitsEnd(chars, i) ==
    IF i <= Len(chars) /\ IsDigit(chars[i]) THEN DigitsEnd(chars, i + 1) ELSE i

\* the number written by the digits at positions i..j-1
RECURSIVE Decimal(_, _, _)
Decimal(chars, i, j) ==
    IF j <= i THEN 0 ELSE Decimal(chars, i, j - 1) * 10 + DigitValue(chars[j - 1])

RECURSIVE Pow10(_)
Pow10(k) == IF k = 0 THEN 1 ELSE 10 * Pow10(k - 1)

NaN == [nan |-> TRUE]

\* parseFloat(string): sign, digits, fraction; what follows is ignored, and
\* without any digit the result is NaN. A number is num/den, negative if neg.
parseFloat(chars) ==
    LET signed == Len(chars) >= 1 /\ chars[1] \in {"-", "+"}
        start == IF signed THEN 2 ELSE 1
        intEnd == DigitsEnd(chars, start)
        hasDot == intEnd <= Len(chars) /\ chars[intEnd] = "."
        fracEnd == IF hasDot THEN DigitsEnd(chars, intEnd + 1) ELSE intEnd
        nFrac == IF hasDot THEN fracEnd - intEnd - 1 ELSE 0
    IN IF (intEnd - start) + nFrac = 0 THEN NaN
       ELSE [nan |-> FALSE,
             neg |-> signed /\ chars[1] = "-",
             num |-> Decimal(chars, start, intEnd) * Pow10(nFrac)
                        + Decimal(chars, intEnd + 1, fracEnd),
             den |-> Pow10(nFrac)]

isNaN(x) == x.nan
GreaterThan1(x) == ~x.nan /\ ~x.neg /\ x.num > x.den
LessThan0(x) == ~x.nan /\ x.neg /\ x.num > 0

\* String(value) of what state.probability holds: the number 1.0 or a string
StringOf(value) == IF "number" \in DOMAIN value THEN <<"1">> ELSE value.string

\* reducer of useReducer
reducer(st, action) ==
    IF action.name = "taxonomy_index"
    THEN [st EXCEPT !.taxonomy_index = action.value,
                    !.allowed_classes = latestTaxonomyList[action.value + 1].allowed_classes]
    ELSE [st EXCEPT ![action.name] = action.value]

\* consecutive localDispatch calls of one handler
RECURSIVE localDispatch(_, _)
localDispatch(st, actions) ==
    IF actions = <<>> THEN st
    ELSE localDispatch(reducer(st, Head(actions)), Tail(actions))

\* a processProb that stores whatever was entered
processProbUnchecked(st, value) ==
    localDispatch(st, << [name |-> "probability_errored", value |-> FALSE],
                         [name |-> "probability", value |-> String(value)] >>)

\* processProb: the state after the blur of the probability field holding value
processProb(st, value) ==
    IF \/ isNaN(parseFloat(value))
       \/ GreaterThan1(parseFloat(value))
       \/ LessThan0(parseFloat(value))
    THEN localDispatch(st, << [name |-> "probability_errored", value |-> TRUE] >>)
    ELSE localDispatch(st, << [name |-> "probability_errored", value |-> FALSE],
                              [name |-> "probability", value |-> String(value)] >>)

\* disabled of classificationSubmitButton
submitDisabled(st) ==
    ~(st.class_select_enabled /\ st.probability_select_enabled /\ ~st.probability_errored)

handleTaxonomyChange(value) ==
    /\ state' = localDispatch(state,
                    << [name |-> "taxonomy_index", value |-> value],
                       [name |-> "classification", value |-> String(<<>>)],
                       [name |-> "class_select_enabled", value |-> TRUE],
                       [name |-> "probability_select_enabled", value |-> FALSE],
                       [name |-> "probability_errored", value |-> FALSE],
                       [name |-> "probability", value |-> Number(Scale)] >>)
    /\ UNCHANGED <<candidateVars, heap, slice, requests, route, effectDeps, groupLoadError, last,
                   reducers, errors, reading, formState, invitations>>

\* Autocomplete onChange: an option is chosen, or the field cleared (null)
handleClasschange(value) ==
    /\ state.class_select_enabled
    /\ state' = localDispatch(state,
                    << [name |-> "classification", value |-> value],
                       [name |-> "probability_select_enabled", value |-> TRUE] >>)
    /\ UNCHANGED <<candidateVars, heap, slice, requests, route, effectDeps, groupLoadError, last,
                   reducers, errors, reading, formState, invitations>>

\* onBlur of the probability field
ProbabilityBlur(value) ==
    /\ state.class_select_enabled /\ state.probability_select_enabled
    /\ state' = processProb(state, value)
    /\ UNCHANGED <<candidateVars, heap, slice, requests, route, effectDeps, groupLoadError, last,
                   reducers, errors, reading, formState, invitations>>

\* formData of onSubmit; state.classification.class of "" is undefined
formData(st) ==
    [taxonomy_id |-> latestTaxonomyList[st.taxonomy_index + 1].id,
     obj_id |-> obj_id,
     classification |-> Get(st.classification, "class"),
     probability |-> parseFloat(StringOf(st.probability))]

\* the form is submitted; with the classification cleared (null) onSubmit
\* throws on state.classification.class and dispatches nothing
onSubmit ==
    /\ ~submitDisabled(state)
    /\ state.classification # NullValue
    /\ Len(requests) < MaxInFlight
    /\ requests' = Issue(requests, <<APICall(ADD_CLASSIFICATION, formData(state))>>, "other")
    /\ UNCHANGED <<heap, slice, route, effectDeps, groupLoadError, last, localVars>>

(***************************************************************************)
(* Candidate list: mount, table changes, sort clicks, answers              *)
(***************************************************************************)
\* the data of dispatchSort in a render with these values
dispatchSort(ascending, rowsPerPage, selectedAnnotationItem) ==
    fetchCandidates([pageNumber |-> 1,
                     numPerPage |-> rowsPerPage,
                     sortByAnnotationOrigin |-> selectedAnnotationItem.origin,
                     sortByAnnotationKey |-> selectedAnnotationItem.key,
                     sortByAnnotationOrder |-> IF ascending = Boolean(TRUE)
                                               THEN "asc" ELSE "desc"])

\* the toolbar's effect on [ascending, rowsPerPage] when it runs
SortEffect(cl, selectedAnnotationItem) ==
    IF cl.ascending # NullValue
    THEN <<dispatchSort(cl.ascending, cl.rowsPerPage, selectedAnnotationItem)>>
    ELSE <<>>

\* CandidateList mounts and its effect on [candidates] runs
CandidateListMount ==
    /\ ~candidateList.mounted
    /\ IF candidates.candidates = NullValue
       THEN /\ Len(requests) < MaxInFlight
            /\ candidateList' = [candidateList EXCEPT !.mounted = TRUE,
                                                      !.queryInProgress = TRUE]
            /\ requests' = Issue(requests,
                                 <<fetchCandidates([numPerPage |-> defaultNumPerPage])>>,
                                 "mount")
       ELSE /\ candidateList' = [candidateList EXCEPT !.mounted = TRUE,
                                                      !.queryInProgress = FALSE]
            /\ UNCHANGED requests
    /\ UNCHANGED <<candidates, heap, slice, route, effectDeps, groupLoadError, last,
                   reducers, errors, reading, formState, invitations, state>>

\* the table is shown, with the toolbar in it, while no query is in progress
TableShown == candidateList.mounted /\ ~candidateList.queryInProgress

\* onTableChange of the table: setRowsPerPage, handlePageChange for the two
\* paging actions, and the toolbar's effect when rowsPerPage has changed
handleTableChange(action, tableState) ==
    /\ TableShown
    /\ LET paging == action \in {"changePage", "changeRowsPerPage"}
           pageCalls ==
               IF paging
               THEN <<fetchCandidates([pageNumber |-> tableState.page + 1,
                                       numPerPage |-> tableState.rowsPerPage])>>
               ELSE <<>>
           rendered == [candidateList EXCEPT
                           !.rowsPerPage = tableState.rowsPerPage,
                           !.queryInProgress = IF paging THEN TRUE ELSE @]
           sortCalls ==
               IF tableState.rowsPerPage # candidateList.rowsPerPage
               THEN SortEffect(rendered, candidates.selectedAnnotationItem)
               ELSE <<>>
       IN /\ Len(requests) + Len(pageCalls) + Len(sortCalls) <= MaxInFlight
          /\ requests' = Issue(Issue(requests, pageCalls, "page"), sortCalls, "sort")
          /\ candidateList' = rendered
    /\ UNCHANGED <<candidates, heap, slice, route, effectDeps, groupLoadError, last,
                   reducers, errors, reading, formState, invitations, state>>

\* a sort button whose first click asks for descending order
handleSortDescendingFirst ==
    /\ TableShown
    /\ candidates.selectedAnnotationItem # NullValue
    /\ LET rendered == [candidateList EXCEPT
                           !.queryInProgress = TRUE,
                           !.ascending = IF @ = NullValue THEN Boolean(FALSE)
                                         ELSE Boolean(~@.boolean)]
           sortCalls == SortEffect(rendered, candidates.selectedAnnotationItem)
       IN /\ Len(requests) + Len(sortCalls) <= MaxInFlight
          /\ requests' = Issue(requests, sortCalls, "sort")
          /\ candidateList' = rendered
    /\ UNCHANGED <<candidates, heap, slice, route, effectDeps, groupLoadError, last,
                   reducers, errors, reading, formState, invitations, state>>

\* a click on the sort button (disabled while no item is selected), and the
\* toolbar's effect on the changed `ascending`
handleSort ==
    /\ TableShown
    /\ candidates.selectedAnnotationItem # NullValue
    /\ LET rendered == [candidateList EXCEPT
                           !.queryInProgress = TRUE,
                           !.ascending = IF @ = NullValue THEN Boolean(TRUE)
                                         ELSE Boolean(~@.boolean)]
           sortCalls == SortEffect(rendered, candidates.selectedAnnotationItem)
       IN /\ Len(requests) + Len(sortCalls) <= MaxInFlight
          /\ requests' = Issue(requests, sortCalls, "sort")
          /\ candidateList' = rendered
    /\ UNCHANGED <<candidates, heap, slice, route, effectDeps, groupLoadError, last,
                   reducers, errors, reading, formState, invitations, state>>

\* the user selects another annotation item in a row of the table: the store
\* takes it and the toolbar's effect on [selectedAnnotationItem] runs
SelectAnnotationItem(item) ==
    /\ TableShown
    /\ candidates.candidates # NullValue
    /\ item # candidates.selectedAnnotationItem
    /\ candidates' = [candidates EXCEPT !.selectedAnnotationItem = item]
    /\ candidateList' = [candidateList EXCEPT !.ascending = NullValue]
    /\ UNCHANGED <<requests, heap, slice, route, effectDeps, groupLoadError, last,
                   reducers, errors, reading, formState, invitations, state>>

RECURSIVE ReduceCandidates(_, _)
ReduceCandidates(st, actions) ==
    IF actions = <<>> THEN st
    ELSE ReduceCandidates(candidatesReducer(st, Head(actions)), Tail(actions))

\* the answer to a candidates query: the reducer, the code after the await in
\* handlePageChange and dispatchSort, CandidateList's effect on [candidates],
\* and the table mounted anew (key table_<pageNumber>) with a new toolbar
CandidatesRespond(i, outcome) ==
    /\ requests[i].type = FETCH_CANDIDATES
    /\ LET req == requests[i]
           reduced == ReduceCandidates(candidates, APIActions(req, outcome))
           awaited == req.origin \in {"page", "sort"}
           loaded == outcome.kind = "success"
       IN /\ candidates' = reduced
          /\ candidateList' =
                [candidateList EXCEPT
                    !.queryInProgress = IF awaited \/ loaded THEN FALSE ELSE @,
                    !.ascending = IF reduced.pageNumber # candidates.pageNumber
                                  THEN NullValue ELSE @]
    /\ requests' = Remove(requests, i)
    /\ UNCHANGED <<heap, slice, route, effectDeps, groupLoadError, last,
                   reducers, errors, reading, formState, invitations, state>>

GroupIds == {"1"}
Routes == {[page |-> "Source", id |-> id] : id \in SourceIds}
            \cup {[page |-> "Group", id |-> id] : id \in GroupIds}

\* the pages, the source subscriber and the answers to their calls
Next ==
    \/ \E r \in Routes : Navigate(r.page, r.id)
    \/ SourceEffect
    \/ SourceRender
    \/ GroupEffect
    \/ \E p \in Payloads : WSMessage(REFRESH_SOURCE, p)
    \/ \E i \in 1..Len(requests) : \E o \in PageOutcomes(requests[i]) : Respond(i, o)

Spec == Init /\ [][Next]_vars

\* the store alone: any plain action may be dispatched at any time
OKActions ==
    {[type |-> FETCH_GROUPS_OK, data |-> d] : d \in GroupsBodies}
        \cup {[type |-> FETCH_RECENT_SOURCES_OK, data |-> d] : d \in RecentSourcesBodies}
        \cup {[type |-> FETCH_NEWSFEED_OK, data |-> d] : d \in NewsFeedBodies}
        \cup UNION {{[type |-> FETCH_LOADED_SOURCE_OK, data |-> d] : d \in SourceBodies(id)} :
                        id \in SourceIds}

TestActions ==
    OKActions
        \cup {[type |-> ADD_GROUP_OK, data |-> Group7]}
        \cup {[type |-> t] : t \in {UNKNOWN, ROTATE_LOGO, FETCH_LOADED_SOURCE_FAIL,
                                    FETCH_GROUPS \o "_FAIL", SHOW_NOTIFICATION}}

StoreNext == \E a \in TestActions : Dispatch(a)

StoreSpec == Init /\ [][StoreNext]_vars

\* the calls of the action creators and their answers, whoever dispatched them
FetchCalls ==
    {fetchGroups, fetchRecentSources} \cup {fetchSource(id) : id \in SourceIds}

FetchNext ==
    \/ \E c \in FetchCalls : Fetch(c)
    \/ \E i \in 1..Len(requests) : \E o \in Outcomes(requests[i]) : Respond(i, o)

FetchSpec == Init /\ [][FetchNext]_vars

\* the application from its load on: hydrate and the answers to its fetches
LoadNext ==
    \/ \E thunk \in {hydrate, hydrateDefault} : Load(thunk)
    \/ Hydrate
    \/ \E i \in 1..Len(requests) : \E o \in Outcomes(requests[i]) : Respond(i, o)

LoadSpec == Init /\ [][LoadNext]_vars

\* registrations during a session: every duck registering its reducer again
\* (hot reload) and the other reducer of newsFeed.js taking the "groups" key
Registrations == {<<k, k>> : k \in Keys} \cup {<<"groups", "newsFeed">>}

RegNext ==
    \/ \E g \in Registrations : Inject(g[1], g[2])
    \/ \E a \in TestActions : DispatchRegistered(a)

RegSpec == Init /\ [][RegNext]_vars

\* the server's messages, with or without payload, and the answers to the
\* fetches the subscribers dispatch
MessageNext ==
    \/ \E t \in MessageTypes : \E p \in MessagePayloads : WSMessage(t, p)
    \/ \E i \in 1..Len(requests) : \E o \in Outcomes(requests[i]) : Respond(i, o)

MessageSpec == Init /\ [][MessageNext]_vars

\* the thunk-form creators: comments with and without attachment, hydrate,
\* and the answers to their calls
ThunkNext ==
    \/ \E form \in CommentForms : AddComment(form)
    \/ \E i \in 1..Len(reading) : \E result \in ReadResults(reading[i].attachment) :
          LoadEnd(i, result)
    \/ Hydrate
    \/ \E i \in 1..Len(requests) : \E o \in Outcomes(requests[i]) : Respond(i, o)

ThunkSpec == Init /\ [][ThunkNext]_vars

\* the invitation form: what the user does with it and the answers to its invitations
InviteNext ==
    \/ \E value \in Roles : handleRoleChange(value)
    \/ \E name \in {"canSave", "admin"} : toggleCheckbox(name)
    \/ \E value \in Emails : setNewUserEmail(value)
    \/ handleClickSubmit
    \/ \E i \in 1..Len(invitations) : \E status \in {"success", "error"} :
          handleClickSubmitResumes(i, status)

InviteSpec == Init /\ [][InviteNext]_vars

\* the classification form: what the user does with it, and the answers to
\* the classifications it sends
ClassifyNext ==
    \/ \E value \in 0..(Len(latestTaxonomyList) - 1) : handleTaxonomyChange(value)
    \/ \E n \in 1..Len(state.allowed_classes) : handleClasschange(state.allowed_classes[n])
    \/ handleClasschange(NullValue)
    \/ \E value \in Entries : ProbabilityBlur(value)
    \/ onSubmit
    \/ \E i \in 1..Len(requests) : \E o \in Outcomes(requests[i]) : Respond(i, o)

ClassifySpec == Init /\ [][ClassifyNext]_vars

\* the candidate list: its mount, the table's changes, sort clicks, the
\* selection of an annotation item and the answers to its queries
TableStates == [page : Pages, rowsPerPage : RowsPerPageOptions]

CandidateNext ==
    \/ CandidateListMount
    \/ \E tableState \in TableStates :
          \/ /\ tableState.rowsPerPage = candidateList.rowsPerPage
             /\ tableState.page # candidates.pageNumber - 1
             /\ handleTableChange("changePage", tableState)
          \/ /\ tableState.rowsPerPage # candidateList.rowsPerPage
             /\ handleTableChange("changeRowsPerPage", tableState)
    \/ handleSort
    \/ \E item \in AnnotationItems : SelectAnnotationItem(item)
    \/ \E i \in 1..Len(requests) : \E o \in CandidatesOutcomes(requests[i]) :
          CandidatesRespond(i, o)

CandidateSpec == Init /\ [][CandidateNext]_vars

\* the answer to the request at position i arrives
RespondAt(i) ==
    /\ i <= Len(requests)
    /\ \E o \in Outcomes(requests[i]) : Respond(i, o)

\* request i leaves the requests in flight: what RespondAt(i) does to `requests`
Answered(i) ==
    /\ i <= Len(requests)
    /\ \E o \in Outcomes(requests[i]) :
          requests' = Issue(Remove(MarkRace(requests, i, o), i),
                            ContinuationCalls(requests[i], APIResult(requests[i], o)), "other")

\* the network answers every request in flight (fetch() settles), whatever
\* other requests are issued or answered meanwhile: weak fairness of the
\* request at position i leaving the list, and, requests carrying no identity
\* of their own, of its being the answer to that very request that takes it
\* out (weak fairness of RespondAt(i), ENABLED written as i <= Len(requests))
FairSpec ==
    /\ Init /\ [][FetchNext]_vars
    /\ \A i \in 1..MaxInFlight :
          /\ WF_requests(Answered(i))
          /\ []<>(Len(requests) < i) \/ []<><<RespondAt(i)>>_vars

\* the Source page in a browser: React runs the effect of a committed render
\* before the next event is handled, so while the effect is due nothing else
\* happens; a step that makes the effect due leaves room for its fetch
EffectDue == route.page = "Source" /\ effectDeps # SourceDeps
Room == (EffectDue /\ ~isCached) => Len(requests) < MaxInFlight

SourcePageNext ==
    \/ SourceEffect
    \/ /\ ~EffectDue
       /\ \/ \E id \in SourceIds : Navigate("Source", id)
          \/ \E p \in Payloads : WSMessage(REFRESH_SOURCE, p)
          \/ \E i \in 1..Len(requests) : \E o \in PageOutcomes(requests[i]) : Respond(i, o)
       /\ Room'

\* the effect of a render runs, and the network answers every request
SourcePageSpec ==
    /\ Init /\ [][SourcePageNext]_vars
    /\ WF_vars(SourceEffect)
    /\ \A i \in 1..MaxInFlight :
          /\ WF_requests(Answered(i))
          /\ []<>(Len(requests) < i) \/ []<><<RespondAt(i)>>_vars

(***************************************************************************)
(* Properties of the store and its reducers (StoreSpec)                    *)
(***************************************************************************)
\* the value of every slice, arrays written out
DeepState(h, sl) == [k \in Keys |-> Deep(h, sl[k])]

\* reducer `key` called on the current slice with the parsed action a
Reduced(key, a) ==
    LET p == ParseAction(heap, a)
        r == Reduce(key, p.heap, slice[key], p.action)
    IN [before |-> p.heap, heap |-> r.heap, ref |-> r.ref]

\* C1: a reducer handed an action whose type it has no case for returns the
\* very object it was given (same reference) and allocates nothing, in every
\* state the store can reach and for each of the four reducers.
C1_UnknownActionReturnsSameReference ==
    \A key \in Keys : \A a \in TestActions :
        a.type \notin Handles(key) =>
            /\ Reduced(key, a).ref = slice[key]
            /\ Reduced(key, a).heap = Reduced(key, a).before

\* an unrecognized action has been dispatched on a store whose slices are loaded
C1_Witness ==
    /\ last.type \in {UNKNOWN, ROTATE_LOGO}
    /\ "id" \in DOMAIN heap[slice["source"]]
    /\ IsArr(heap[slice["groups"]].all)
    /\ IsArr(heap[slice["recentSources"]].recentSources)
    /\ ~IsArr(heap[slice["newsFeed"]])

\* C2: whatever the action, every object that existed before the reducer ran
\* (the state passed in, and all it references) holds the same fields after
\* it returned; a recognized action is answered with a newly allocated object.
C2_ReducersDoNotMutate ==
    \A key \in Keys : \A a \in TestActions :
        LET r == Reduced(key, a)
        IN /\ \A ref \in DOMAIN r.before : r.heap[ref] = r.before[ref]
           /\ a.type \in Handles(key) => r.ref \notin DOMAIN r.before

\* a recognized action has been reduced onto a slice that already held data
C2_Witness ==
    /\ last.type = FETCH_GROUPS_OK
    /\ last.data.all_groups = Arr(<<>>)
    /\ heap[slice["groups"]].all = Arr(<<>>)
    /\ "redshift" \in DOMAIN heap[slice["source"]]

GroupsImage(d) ==
    [user |-> d.user_groups, userAccessible |-> d.user_accessible_groups, all |-> d.all_groups]

\* C3: right after FETCH_GROUPS_OK is dispatched the groups slice is exactly
\* {user: U, userAccessible: A, all: L} of that action, and in no reachable
\* state is the slice anything but the initial state or the three fields of
\* one single response.
C3_FetchGroupsOkAtomic ==
    /\ last.type = FETCH_GROUPS_OK => heap[slice["groups"]] = GroupsImage(last.data)
    /\ heap[slice["groups"]] \in {groupsInitialState} \cup {GroupsImage(d) : d \in GroupsBodies}

\* FETCH_GROUPS_OK with three different lists has just been reduced
C3_Witness ==
    /\ last.type = FETCH_GROUPS_OK
    /\ last.data.all_groups = Arr(<<Group7>>)
    /\ heap[slice["groups"]] =
          [user |-> Arr(<<Group1>>), userAccessible |-> Arr(<<Group1, Group7>>),
           all |-> Arr(<<Group7>>)]

AddGroupOk == [type |-> ADD_GROUP_OK, data |-> Group7]
EmptyGroups == [user |-> Arr(<<>>), userAccessible |-> Arr(<<>>), all |-> Arr(<<>>)]
Elements(v) == IF IsArr(v) THEN {v.arr[i] : i \in 1..Len(v.arr)} ELSE {}

\* what the groups reducer returns for ADD_GROUP_OK in the current state
AfterAddGroupOk ==
    LET r == Reduced("groups", AddGroupOk)
    IN [ref |-> r.ref, value |-> r.heap[r.ref]]

\* C5 as claimed: dispatched against {user: [], userAccessible: [], all: []},
\* ADD_GROUP_OK yields a slice one of whose lists holds the new group.
C5_Original_AddGroupOkAddsGroup ==
    heap[slice["groups"]] = EmptyGroups =>
        \E f \in DOMAIN AfterAddGroupOk.value : Group7 \in Elements(AfterAddGroupOk.value[f])

\* C5 amended: the groups reducer has no case for ADD_GROUP_OK; handed that
\* action it returns the slice object it was given, so {user: [], userAccessible:
\* [], all: []} stays as it is and the new group is in none of the three lists.
C5_AddGroupOkLeavesGroups ==
    /\ AfterAddGroupOk.ref = slice["groups"]
    /\ AfterAddGroupOk.value = heap[slice["groups"]]

\* ADD_GROUP_OK has been dispatched against the three empty lists
C5_Witness == last = AddGroupOk /\ heap[slice["groups"]] = EmptyGroups

\* C10: in the store, an action is recognized by at most one reducer, every
\* slice whose reducer does not recognize it keeps its object, and two
\* success actions of different resources give the same store state in either
\* order.
C10_SlicesIndependent ==
    /\ \A a \in TestActions :
          LET d == StoreDispatch(heap, slice, a)
          IN /\ Cardinality({k \in Keys : a.type \in Handles(k)}) <= 1
             /\ \A k \in Keys :
                   a.type \notin Handles(k) =>
                      /\ d.slice[k] = slice[k]
                      /\ Deep(d.heap, d.slice[k]) = Deep(heap, slice[k])
    /\ \A a \in OKActions : \A b \in OKActions :
          a.type # b.type =>
              LET ab == DispatchAll(heap, slice, <<a, b>>)
                  ba == DispatchAll(heap, slice, <<b, a>>)
              IN DeepState(ab.heap, ab.slice) = DeepState(ba.heap, ba.slice)

\* successes of four different resources have been reduced, the last one for groups
C10_Witness ==
    /\ last.type = FETCH_GROUPS_OK
    /\ heap[slice["groups"]].all = Arr(<<Group7>>)
    /\ Get(heap[slice["source"]], "id") = "43"
    /\ heap[slice["recentSources"]].recentSources = Arr(<<"42">>)
    /\ ~IsArr(heap[slice["newsFeed"]])

(***************************************************************************)
(* Properties of the pages, the subscribers and the requests               *)
(***************************************************************************)
\* C4: for every message the source subscriber dispatches exactly one
\* fetchSource, for the loaded source id, when the type is REFRESH_SOURCE and
\* getState().source.id equals payload.source_id; it dispatches nothing when
\* the ids differ or the type is any other.
C4_SourceSubscriberGating ==
    \A t \in MessageTypes : \A p \in Payloads :
        LET calls == sourceSubscriber(t, p, heap, slice)
        IN IF t = REFRESH_SOURCE /\ cachedSourceId = PayloadSourceId(p)
           THEN calls = <<fetchSource(cachedSourceId)>>
           ELSE calls = <<>>

\* source "42" is loaded and the subscriber's refetch of it is in flight, while
\* a REFRESH_SOURCE naming "43" finds nothing to dispatch
C4_Witness ==
    /\ cachedSourceId = "42"
    /\ \E i \in 1..Len(requests) :
          /\ requests[i].origin = "ws"
          /\ requests[i].type = FETCH_LOADED_SOURCE
          /\ requests[i].arg = "42"
    /\ sourceSubscriber(REFRESH_SOURCE, [source_id |-> "43"], heap, slice) = <<>>

\* a raced success: the answer to a request that was in flight together with
\* another of the same type whose success has been reduced already
RacedSuccess(i, o) ==
    /\ o.kind = "success"
    /\ requests[i].race # "none"
    /\ Respond(i, o)

SliceOf(type) ==
    CASE type = FETCH_GROUPS -> "groups"
      [] type = FETCH_RECENT_SOURCES -> "recentSources"
      [] type = FETCH_LOADED_SOURCE -> "source"

\* the slice as it is when the success o of req is the only one ever reduced
FreshValue(req, o) ==
    LET key == SliceOf(req.type)
        p == ParseAction((1 :> InitialState(key)), Head(APIActions(req, o)))
        r == Reduce(key, p.heap, 1, p.action)
    IN Deep(r.heap, r.ref)

C7_FailureResolves ==
    [][\A i \in 1..Len(requests) : \A o \in PageOutcomes(requests[i]) :
          (o.kind = "failure" /\ Respond(i, o)) =>
              LET req == requests[i]
                  result == APIResult(req, o)
              IN /\ result.settled = "resolved"
                 /\ result.status = "error"
                 /\ result.message = o.message
                 /\ result.message # ""
                 /\ (req.origin = "Group" /\ route.page = "Group")
                        => groupLoadError' = result.message
                 /\ req.origin = "Source" => Len(requests') = Len(requests) - 1]_vars

\* the Group page shows the message of a failed fetchGroup
C7_Witness ==
    /\ route.page = "Group"
    /\ groupLoadError \in FailureMessages

\* the positions of the terminal actions of a creator's type among acts
Terminal(type, acts) ==
    {n \in 1..Len(acts) : acts[n].type \in {type \o "_OK", type \o "_FAIL"}}

C9_OnlyReducersChangeSlices ==
    [][DeepState(heap', slice') # DeepState(heap, slice) =>
          \E i \in 1..Len(requests) : \E o \in PageOutcomes(requests[i]) : Respond(i, o)]_vars

(***************************************************************************)
(* Properties of hydrate, the registration table and the message handler   *)
(***************************************************************************)
Types(reqs) == {reqs[i].type : i \in 1..Len(reqs)}

\* C11: when hydrate has run, one request for each of its resources is in
\* flight, in the order of its dispatches, and the store is still in its
\* initial state: no answer has been reduced, hydrate has waited for none.
\* From then on the answers are reduced in whatever order they arrive, each
\* taking its own request out of flight and leaving the others in flight.
C11_HydrateFiresAllWithoutJoin ==
    /\ [][\A thunk \in {hydrate, hydrateDefault} :
            Load(thunk) =>
                /\ Len(requests') = Len(thunk)
                /\ \A n \in 1..Len(thunk) :
                      /\ requests'[n].type = thunk[n].type
                      /\ requests'[n].race = "none"
                /\ Cardinality(Types(requests')) = Len(thunk)
                /\ DeepState(heap', slice') = [k \in Keys |-> InitialState(k)]]_vars
    /\ [][\A i \in 1..Len(requests) : \A o \in Outcomes(requests[i]) :
            Respond(i, o) =>
                Types(requests') = Types(Remove(requests, i))]_vars

\* the answer to fetchGroups, the fifth of hydrate's twelve fetches, has been
\* reduced and so has the answer to the sixth, while the first four and the
\* last are still in flight
C11_Witness ==
    /\ heap[slice["groups"]].all = Arr(<<Group7>>)
    /\ ~IsArr(heap[slice["newsFeed"]])
    /\ {fetchConfig.type, fetchSystemInfo.type, fetchDBInfo.type, fetchUserProfile.type,
        fetchTaxonomies.type} \subseteq Types(requests)
    /\ fetchGroups.type \notin Types(requests)
(***************************************************************************)
(* C12                                                                     *)
(***************************************************************************)
EntriesOf(table, key) == {i \in 1..Len(table) : table[i].key = key}

\* C12: registering a reducer under a key that already has one leaves exactly
\* one entry for that key, holding the reducer registered last, and leaves the
\* other entries, their order and the state of the store as they were;
\* registering the function a key already holds changes nothing at all, so a
\* store where "groups" was registered twice with the same function answers
\* every action as the store where it was registered once.
C12_ReRegistrationLastWins ==
    /\ [][\A g \in Registrations : Inject(g[1], g[2]) =>
            /\ Cardinality(EntriesOf(reducers', g[1])) = 1
            /\ \A i \in EntriesOf(reducers', g[1]) : reducers'[i].reducer = g[2]
            /\ Len(reducers') = Len(reducers)
            /\ \A i \in 1..Len(reducers) :
                  reducers[i].key # g[1] => reducers'[i] = reducers[i]
            /\ DeepState(heap', slice') = DeepState(heap, slice)]_vars
    /\ [](LET once == injectReducer(reducers, "groups", "groups")
              twice == injectReducer(once, "groups", "groups")
          IN /\ twice = once
             /\ \A a \in TestActions :
                   LET d1 == RegisteredDispatch(once, heap, slice, a)
                       d2 == RegisteredDispatch(twice, heap, slice, a)
                   IN Deep(d2.heap, d2.slice["groups"]) = Deep(d1.heap, d1.slice["groups"])
             /\ once = Registry =>
                   \A a \in TestActions :
                      LET d1 == RegisteredDispatch(once, heap, slice, a)
                          d0 == StoreDispatch(heap, slice, a)
                      IN DeepState(d1.heap, d1.slice) = DeepState(d0.heap, d0.slice))

\* "groups" was taken by another reducer, which reduced a news feed into the
\* groups slice, then registered again with the groups reducer, which reduced
\* a FETCH_GROUPS_OK: one entry, the last registered
C12_Witness ==
    /\ reducers = Registry
    /\ "newsFeedItems" \in DOMAIN heap[slice["groups"]]
    /\ IsArr(heap[slice["groups"]].all)
    /\ last.type = FETCH_GROUPS_OK

(***************************************************************************)
(* C13                                                                     *)
(***************************************************************************)
\* the slice objects getState() returns, as a selector or a subscriber reads them
Aggregate == [k \in Keys |-> heap[slice[k]]]

\* the slice `key` after its own reducer alone has reduced the actions of as
RECURSIVE ReducedBy(_, _, _, _)
ReducedBy(key, h, s, as) ==
    IF as = <<>> THEN Deep(h, s)
    ELSE LET p == ParseAction(h, Head(as))
             r == Reduce(key, p.heap, s, p.action)
         IN ReducedBy(key, r.heap, r.ref, Tail(as))

\* C13: the aggregate the readers (the pages' selectors, the source
\* subscriber's getState) find changes only in the step in which an answer
\* arrives and its actions are dispatched, and after that step every slice is
\* what its own reducer makes of those actions: no state a reader can see has
\* an action reduced by some reducers and not by the others.
C13_AggregateReplacedAtomically ==
    [][\/ /\ Aggregate' = Aggregate
          /\ Len(requests') >= Len(requests)
          /\ SubSeq(requests', 1, Len(requests)) = requests
       \/ \E i \in 1..Len(requests) : \E o \in PageOutcomes(requests[i]) :
             /\ Respond(i, o)
             /\ \A k \in Keys :
                   Deep(heap', slice'[k])
                      = ReducedBy(k, heap, slice[k], APIActions(requests[i], o))]_vars

\* the source subscriber has read the aggregate after source 42 was reduced
\* into it and has dispatched its fetch, while the groups slice a later
\* answer will replace is still the initial one
C13_Witness ==
    /\ Get(heap[slice["source"]], "id") = "42"
    /\ \E i \in 1..Len(requests) :
          requests[i].origin = "ws" /\ requests[i].arg = "42"
    /\ heap[slice["groups"]] = groupsInitialState

(***************************************************************************)
(* C14                                                                     *)
(***************************************************************************)
\* C14: whatever the message and the state, delivery invokes the source, the
\* groups and the recentSources subscriber once each in this order, also when
\* the source subscriber throws (a REFRESH_SOURCE without payload); the
\* requests a delivery adds are the calls of all three in this order, the
\* subscribers that threw are noted, and whatever was noted before, a message
\* is delivered the same way.
C14_SubscribersIsolated ==
    /\ [](\A t \in MessageTypes : \A p \in MessagePayloads :
            LET d == Deliver(1, t, p, heap, slice)
            IN /\ d.invoked = SubscriberNames
               /\ d.calls = Subscribers(t, p, heap, slice)
               /\ d.thrown = {SubscriberNames[n] : n \in {m \in 1..Len(SubscriberNames) :
                                 SubscriberThrows(SubscriberNames[m], t, p)}})
    /\ [][\A t \in MessageTypes : \A p \in MessagePayloads :
            WSMessage(t, p) =>
                /\ requests' = Issue(requests, Subscribers(t, p, heap, slice), "ws")
                /\ errors' = errors \cup {n \in {"source"} : sourceSubscriberThrows(t, p)}]_vars

\* the source subscriber has thrown, and the fetches the two subscribers
\* registered after it dispatch for their messages are in flight
C14_Witness ==
    /\ errors = {"source"}
    /\ Types(requests) = {FETCH_GROUPS, FETCH_RECENT_SOURCES}
    /\ \A i \in 1..Len(requests) : requests[i].origin = "ws"

(***************************************************************************)
(* C18                                                                     *)
(***************************************************************************)
WSRequest(type) == [type |-> type, arg |-> Undefined, origin |-> "ws", race |-> "none"]
Count(reqs, type) == Cardinality({i \in 1..Len(reqs) : reqs[i].type = type})

\* C18: in every reachable state and for every payload, the groups subscriber
\* dispatches the one call fetchGroups for a FETCH_GROUPS message and nothing
\* for a message of another type, and the recentSources subscriber the one
\* call fetchRecentSources for a FETCH_RECENT_SOURCES message and nothing
\* otherwise; a delivery step puts exactly that one request in flight, and the
\* delivery of any other message adds no request for groups or recent sources.
C18_ResourceSubscribers ==
    /\ [](\A t \in MessageTypes : \A p \in MessagePayloads :
            /\ Issue(<<>>, groupsSubscriber(t, p, heap, slice), "ws")
                  = IF t = FETCH_GROUPS THEN <<WSRequest(FETCH_GROUPS)>> ELSE <<>>
            /\ Issue(<<>>, recentSourcesSubscriber(t, p, heap, slice), "ws")
                  = IF t = FETCH_RECENT_SOURCES
                    THEN <<WSRequest(FETCH_RECENT_SOURCES)>> ELSE <<>>)
    /\ [][\A t \in MessageTypes : \A p \in MessagePayloads :
            WSMessage(t, p) =>
               /\ t \in {FETCH_GROUPS, FETCH_RECENT_SOURCES}
                     => requests' = Append(requests, WSRequest(t))
               /\ \A u \in {FETCH_GROUPS, FETCH_RECENT_SOURCES} :
                     u # t => Count(requests', u) = Count(requests, u)]_vars

\* with the groups of an earlier answer in the store and a failed source
\* fetch behind it, one message of each tag has put one fetch each in flight
C18_Witness ==
    /\ IsArr(heap[slice["groups"]].all)
    /\ heap[slice["source"]].loadError
    /\ requests = <<WSRequest(FETCH_RECENT_SOURCES), WSRequest(FETCH_GROUPS)>>

(***************************************************************************)
(* C15                                                                     *)
(***************************************************************************)
CommentPost(form) == [type |-> ADD_COMMENT, arg |-> form, origin |-> "other", race |-> "none"]

\* C15 as stated: dispatching a thunk-form creator (addComment with an
\* attachment, hydrate) returns a promise to the caller
C15_Original_ThunksReturnPromise ==
    [][/\ \A form \in CommentForms :
            (hasAttachment(form) /\ AddComment(form)) => IsPromise(addCommentReturn(form))
       /\ Hydrate => IsPromise(hydrateReturn(hydrate))]_vars

\* C15: dispatching addComment with an attachment returns undefined, and in
\* the state the caller goes on in the file is still being read and no request
\* has been added; dispatching hydrate returns undefined, and in the state the
\* caller goes on in every fetch of the thunk is in flight, none answered; only
\* addComment without an attachment, which is the wrapper's call, returns the
\* promise of the request it has put in flight.
C15_ThunksReturnNothing ==
    [][/\ \A form \in CommentForms :
            AddComment(form) =>
                IF hasAttachment(form)
                THEN /\ addCommentReturn(form) = UndefinedValue
                     /\ requests' = requests
                     /\ reading' = Append(reading, form)
                ELSE /\ IsPromise(addCommentReturn(form))
                     /\ requests' = Append(requests, CommentPost(form))
                     /\ reading' = reading
       /\ Hydrate =>
            /\ hydrateReturn(hydrate) = UndefinedValue
            /\ Len(requests') = Len(requests) + Len(hydrate)
            /\ \A n \in 1..Len(hydrate) :
                  requests'[Len(requests) + n].type = hydrate[n].type]_vars

\* the caller of dispatch(addComment(form)) has long gone on: the file is
\* still being read and no POST was sent, while of the two fetches of an
\* earlier hydrate one is still in flight
C15_Witness ==
    /\ Len(reading) = 1
    /\ Types(requests) = {FETCH_GROUPS}
    /\ \A i \in 1..Len(requests) : requests[i].type # ADD_COMMENT

(***************************************************************************)
(* C17                                                                     *)
(***************************************************************************)
\* C17: dispatching addComment with an attachment sends nothing by itself;
\* the one POST leaves when the read of the file ends, and the form it carries
\* has for attachment the pair {body, name} with the file encoded as a data
\* URL for body; without an attachment the POST leaves at once with the form
\* as it was given.
C17_PostCarriesEncodedFile ==
    [][/\ \A form \in CommentForms :
            AddComment(form) =>
                requests' = IF hasAttachment(form) THEN requests
                            ELSE Append(requests, CommentPost(form))
       /\ \A i \in 1..Len(reading) : \A result \in ReadResults(reading[i].attachment) :
            LoadEnd(i, result) =>
                LET file == reading[i].attachment
                    encoded == [body |-> readAsDataURL(file), name |-> file.name]
                IN /\ requests' = Append(requests,
                                         CommentPost([reading[i] EXCEPT !.attachment = encoded]))
                   /\ reading' = Remove(reading, i)]_vars

(***************************************************************************)
(* C16                                                                     *)
(***************************************************************************)
\* the page is mounted and its effect has yet to run for the present dependencies
SourcePending == route.page = "Source" /\ effectDeps # SourceDeps
GroupPending == route.page = "Group" /\ effectDeps # GroupDeps

PageFetches(reqs) ==
    Cardinality({i \in 1..Len(reqs) : reqs[i].type \in {FETCH_LOADED_SOURCE, FETCH_GROUP}})

C19_ViewOnlyNeverAdmin ==
    \A i \in 1..Len(invitations) :
        LET sent == invitations[i]
        IN /\ sent.form.role = sent.formState.role
           /\ sent.form.role = "View only" => sent.form.groupAdmin = <<FALSE>>
           /\ sent.form.role = "Full user" => sent.form.groupAdmin = <<sent.formState.admin>>

\* the admin box was ticked, the role then changed to "View only", and the
\* invitation submitted: it is in flight with groupAdmin [false]
C19_Witness ==
    \E i \in 1..Len(invitations) :
        /\ invitations[i].formState.admin
        /\ invitations[i].formState.role = "View only"
        /\ invitations[i].form.groupAdmin = <<FALSE>>

(***************************************************************************)
(* C20                                                                     *)
(***************************************************************************)
\* the entries that are numbers from 0 to 1, by their reading as numerals
ValidEntries == { <<"0">>, <<"0", ".", "5">>, <<"1">> }

\* x is a number from 0 to 1
InUnitInterval(x) == ~x.nan /\ x.num <= x.den /\ (x.neg => x.num = 0)

\* C20: the probability the form holds always reads as a number from 0 to 1,
\* and so does the probability of every classification sent; the button is
\* disabled whenever probability_errored is set; processProb with an entry
\* that is no number or lies outside [0,1] sets probability_errored and leaves
\* the probability, with a valid entry it clears the error and stores the entry.
C20_ProbabilityInUnitInterval ==
    /\ InUnitInterval(parseFloat(StringOf(state.probability)))
    /\ state.probability_errored => submitDisabled(state)
    /\ \A i \in 1..Len(requests) :
          requests[i].type = ADD_CLASSIFICATION
             => InUnitInterval(requests[i].arg.probability)
    /\ \A value \in Entries :
          LET after == processProb(state, value)
          IN IF value \in ValidEntries
             THEN /\ ~after.probability_errored
                  /\ after.probability = String(value)
                  /\ after = [state EXCEPT !.probability_errored = FALSE,
                                           !.probability = String(value)]
             ELSE /\ after.probability_errored
                  /\ after.probability = state.probability
                  /\ after = [state EXCEPT !.probability_errored = TRUE]

\* 0.5 was entered and stored, then 7 was entered: the error is set, the
\* button disabled, the stored probability still 0.5
C20_Witness ==
    /\ state.probability = String(<<"0", ".", "5">>)
    /\ state.probability_errored
    /\ submitDisabled(state)
    /\ state.probability_select_enabled

(***************************************************************************)
(* C22                                                                     *)
(***************************************************************************)
\* C22: the source subscriber never dispatches fetchSource with an absent
\* id: while the source slice holds no id, the delivery of a REFRESH_SOURCE
\* message, whatever its payload, puts no request in flight, and no source
\* fetch in flight ever has an absent id for argument.
C22_NoFetchWithAbsentId ==
    /\ [](\A i \in 1..Len(requests) :
            requests[i].type = FETCH_LOADED_SOURCE => requests[i].arg # Undefined)
    /\ [][\A p \in MessagePayloads :
            (cachedSourceId = Undefined /\ WSMessage(REFRESH_SOURCE, p))
                => requests' = requests]_vars

(***************************************************************************)
(* C23                                                                     *)
(***************************************************************************)
\* C23: when FETCH_LOADED_SOURCE_OK with the response for a source B is
\* reduced while the slice holds a loaded source A, the slice afterwards has
\* only the fields of B's response, besides loadError and the key of its
\* initial state: no field of A absent from B's response remains.
C23_OnlyFieldsOfNewSource ==
    [][(last'.type = FETCH_LOADED_SOURCE_OK /\ cachedSourceId # Undefined)
          => DOMAIN heap'[slice'["source"]]
                \subseteq DOMAIN last'.data.sources \cup DOMAIN sourceInitialState]_vars

(***************************************************************************)
(* C24                                                                     *)
(***************************************************************************)
\* C24: source.loadError is false before any action; reducing
\* FETCH_LOADED_SOURCE_OK leaves it false, reducing FETCH_LOADED_SOURCE_FAIL
\* leaves it true and every other field of the slice as it was, and reducing
\* any other action leaves the slice as it was. So loadError is true exactly
\* when the latest of the two actions reduced was the FAIL one.
C24_LoadErrorTracksLatestOutcome ==
    /\ (last = NoAction => ~heap[slice["source"]].loadError)
    /\ [](/\ last.type = FETCH_LOADED_SOURCE_OK => ~heap[slice["source"]].loadError
          /\ last.type = FETCH_LOADED_SOURCE_FAIL => heap[slice["source"]].loadError)
    /\ [][LET before == heap[slice["source"]]
              after == heap'[slice'["source"]]
          IN CASE last'.type = FETCH_LOADED_SOURCE_OK -> ~after.loadError
               [] last'.type = FETCH_LOADED_SOURCE_FAIL ->
                     after = [before EXCEPT !.loadError = TRUE]
               [] OTHER -> after = before]_vars

\* source 42 was loaded, a later fetch failed and another action followed:
\* the error is set and the loaded source still in the slice
C24_Witness ==
    /\ heap[slice["source"]].loadError
    /\ cachedSourceId = "42"
    /\ "redshift" \in DOMAIN heap[slice["source"]]
    /\ last.type = ROTATE_LOGO

(***************************************************************************)
(* C27                                                                     *)
(***************************************************************************)
\* C27: whenever the submit button is enabled, the classification the form
\* holds is one of the allowed_classes of the taxonomy selected, and every
\* classification sent carries a defined class.
C27_EnabledMeansValidClass ==
    /\ ~submitDisabled(state) =>
          LET allowed == latestTaxonomyList[state.taxonomy_index + 1].allowed_classes
          IN \E n \in 1..Len(allowed) : state.classification = allowed[n]
    /\ \A i \in 1..Len(requests) :
          requests[i].type = ADD_CLASSIFICATION
             => requests[i].arg.classification # Undefined

(***************************************************************************)
(* C21                                                                     *)
(***************************************************************************)
\* a candidates query that asks for a sort order
Sorted(req) ==
    req.type = FETCH_CANDIDATES /\ "sortByAnnotationOrder" \in DOMAIN req.arg

SortRequest(ascending, rowsPerPage, item) ==
    [type |-> FETCH_CANDIDATES,
     arg |-> [pageNumber |-> 1, numPerPage |-> rowsPerPage,
              sortByAnnotationOrigin |-> item.origin, sortByAnnotationKey |-> item.key,
              sortByAnnotationOrder |-> IF ascending THEN "asc" ELSE "desc"],
     origin |-> "sort", race |-> "none"]

\* C21: selecting another annotation item leaves the sort direction unset and
\* puts no query in flight; a click on the sort button sets the direction to
\* ascending when it was unset and to the opposite of what it was otherwise,
\* and puts exactly one sorted query for the selected item in flight, in that
\* order; and a sorted query enters the queries in flight only in a step that
\* leaves the direction set (a click has been made since it was last unset),
\* asking for the order the direction then has.
C21_SortOnlyAfterClick ==
    [][/\ \A item \in AnnotationItems :
            SelectAnnotationItem(item)
               => candidateList'.ascending = NullValue /\ requests' = requests
       /\ handleSort =>
            LET asc == IF candidateList.ascending = NullValue THEN TRUE
                       ELSE ~candidateList.ascending.boolean
            IN /\ candidateList'.ascending = Boolean(asc)
               /\ requests' = Append(requests,
                                 SortRequest(asc, candidateList.rowsPerPage,
                                             candidates.selectedAnnotationItem))
       /\ \A n \in (Len(requests) + 1)..Len(requests') :
            Sorted(requests'[n]) =>
               /\ candidateList'.ascending # NullValue
               /\ requests'[n].arg.sortByAnnotationOrder =
                     IF candidateList'.ascending = Boolean(TRUE) THEN "asc" ELSE "desc"]_vars

\* the second click since an item was selected: the direction is descending
\* and the query in flight asks for the descending order of that item
C21_Witness ==
    /\ candidateList.ascending = Boolean(FALSE)
    /\ candidateList.queryInProgress
    /\ candidates.selectedAnnotationItem \in AnnotationItems
    /\ requests = <<SortRequest(FALSE, candidateList.rowsPerPage,
                                candidates.selectedAnnotationItem)>>

(***************************************************************************)
(* C26                                                                     *)
(***************************************************************************)
\* C26: queryInProgress is true in every state in which a candidates query
\* started by a page change, a rows-per-page change or a sort click is in
\* flight
C26_InProgressWhileFetching ==
    (\E i \in 1..Len(requests) :
        requests[i].type = FETCH_CANDIDATES /\ requests[i].origin \in {"page", "sort"})
       => candidateList.queryInProgress

(***************************************************************************)
(* C25                                                                     *)
(***************************************************************************)
SourceFetches(reqs) ==
    Cardinality({i \in 1..Len(reqs) : reqs[i].type = FETCH_LOADED_SOURCE})

\* a REFRESH_SOURCE message makes the subscriber fetch a source that is not
\* the one of the route
StaleRefetch ==
    /\ SourceFetches(requests') > SourceFetches(requests)
    /\ requests'[Len(requests')].origin = "ws"
    /\ requests'[Len(requests')].arg # route.id

\* C25 as stated: when no source fetch ever fails (loadError is set by a
\* failure only) and the route no longer changes from some moment on, the
\* loaded source id is the route id from some moment on
C25_Original_SettlesOnRoute ==
    ([](~heap[slice["source"]].loadError) /\ <>[][route' = route]_vars)
        => <>[](route.page = "Source" => isCached)

\* a request for addSourceView(id)
ViewRequest(id) == [type |-> ADD_SOURCE_VIEW, arg |-> id, origin |-> "other", race |-> "none"]

\* C25: when no source fetch ever fails and, from some moment on, the route
\* no longer changes and no message makes the subscriber fetch a source other
\* than the route's, the loaded source id is the route id from some moment on,
\* in whatever order the answers to the fetches in flight arrive. A request
\* addSourceView(id) enters the requests in flight only in the step in which
\* a fetch of id issued by the page is answered with success, and an effect
\* that runs while the source of the route is cached issues nothing.
C25_SettlesOnRoute ==
    /\ ([](~heap[slice["source"]].loadError)
          /\ <>[][route' = route /\ ~StaleRefetch]_vars)
            => <>[](route.page = "Source" => isCached)
    /\ [][/\ Count(requests', ADD_SOURCE_VIEW) > Count(requests, ADD_SOURCE_VIEW)
               => \E i \in 1..Len(requests) :
                     /\ requests[i].type = FETCH_LOADED_SOURCE
                     /\ requests[i].origin = "Source"
                     /\ Len(requests') = Len(requests)
                     /\ requests'[Len(requests')] = ViewRequest(requests[i].arg)
                     /\ Count(requests', FETCH_LOADED_SOURCE)
                           = Count(requests, FETCH_LOADED_SOURCE) - 1
                     /\ cachedSourceId' = requests[i].arg
                     /\ ~heap'[slice'["source"]].loadError
          /\ (SourceEffect /\ isCached) => requests' = requests]_vars

\* two fetches of the page and the refetch of a message were in flight and
\* have been answered, the one for the earlier route last and overwritten
\* since: the page shows the source of its route, the views are being recorded
C25_Witness ==
    /\ route = [page |-> "Source", id |-> "42"]
    /\ isCached
    /\ effectDeps = SourceDeps
    /\ requests = <<ViewRequest("43"), ViewRequest("42")>>

====
